---- MODULE Spec2Model ----
(***************************************************************************)
(* SAPp-Opener (src/main.py): the settings store (ConfigManager), the      *)
(* shortcut interpreter and launcher (InputProcessor) and the window       *)
(* handlers that use them (Window).                                        *)
(*                                                                         *)
(* A Python str is a sequence of one-character strings; a value the        *)
(* program only passes along (a path, a URL) is written as a sequence of   *)
(* one symbol.  The settings are a function from section name to a         *)
(* function from option name to value, as configparser keeps them; the     *)
(* section DEFAULT is always there and its options are seen from every     *)
(* other section.                                                          *)
(***************************************************************************)
EXTENDS Integers, Sequences, FiniteSets, TLC

VARIABLES
  file,        \* config.ini on disk: missing, corrupt, or parsed sections
  exeDirs,     \* the searched program directories that hold sapshcut.exe
  screen,      \* <<width, height>> of the screen
  pc,          \* "off", "configured", "running", "config_error", "update_error"
  config,      \* ConfigManager.config
  sappath,     \* ConfigManager.sappath
  default_lang,\* ConfigManager.default_lang
  move_var,    \* Window.move_var
  entry,       \* text in the entry widget after the last handler
  last,        \* what the last on_enter_pressed did
  loaded,      \* what load_window_position got from get_position
  written,     \* per screen resolution, the last write_position arguments
  moves        \* number of on_motion writes so far

vars == <<file, exeDirs, screen, pc, config, sappath, default_lang, move_var,
          entry, last, loaded, written, moves>>

----------------------------------------------------------------------------
(* Bounds *)

\* entry texts are all strings over Alphabet up to this length, and the named ones
MaxLen == 8
\* on_motion writes in one behaviour
MaxMoves == 2

----------------------------------------------------------------------------
(* Strings *)

\* Python's None, which equals no str
PyNone == <<"<None>">>

Truthy(v) == v # PyNone /\ v # <<>>

UpperLetters ==
  <<"A","B","C","D","E","F","G","H","I","J","K","L","M",
    "N","O","P","Q","R","S","T","U","V","W","X","Y","Z">>
LowerLetters ==
  <<"a","b","c","d","e","f","g","h","i","j","k","l","m",
    "n","o","p","q","r","s","t","u","v","w","x","y","z">>

LowerChar(c) ==
  IF \E i \in 1..26 : UpperLetters[i] = c
  THEN LowerLetters[CHOOSE i \in 1..26 : UpperLetters[i] = c]
  ELSE c

\* str.lower(), and ConfigParser.optionxform
Lower(s) == [i \in 1..Len(s) |-> LowerChar(s[i])]

RECURSIVE LStrip(_)
LStrip(s) == IF s # <<>> /\ Head(s) = " " THEN LStrip(Tail(s)) ELSE s

RECURSIVE RStrip(_)
RStrip(s) ==
  IF s # <<>> /\ s[Len(s)] = " " THEN RStrip(SubSeq(s, 1, Len(s) - 1)) ELSE s

\* str.strip()
Strip(s) == RStrip(LStrip(s))

\* s[a:b] of Python, 0 <= a <= b
Slice(s, a, b) ==
  SubSeq(s, a + 1, IF b < Len(s) THEN b ELSE Len(s))

Digits == <<"0","1","2","3","4","5","6","7","8","9">>

RECURSIVE NatToStr(_)
NatToStr(n) ==
  IF n < 10 THEN <<Digits[n + 1]>>
  ELSE NatToStr(n \div 10) \o <<Digits[(n % 10) + 1]>>

\* str(x) of an int
IntToStr(n) == IF n < 0 THEN <<"-">> \o NatToStr(-n) ELSE NatToStr(n)

DigitVal(c) == CHOOSE d \in 0..9 : Digits[d + 1] = c

RECURSIVE StrToNat(_)
StrToNat(s) ==
  IF s = <<>> THEN 0
  ELSE 10 * StrToNat(SubSeq(s, 1, Len(s) - 1)) + DigitVal(s[Len(s)])

\* int(s) of a decimal numeral
StrToInt(s) == IF Head(s) = "-" THEN -StrToNat(Tail(s)) ELSE StrToNat(s)

----------------------------------------------------------------------------
(* Names and values of the settings *)

K_app_name         == <<"a","p","p","_","n","a","m","e">>
K_version          == <<"v","e","r","s","i","o","n">>
K_position_x       == <<"p","o","s","i","t","i","o","n","_","x">>
K_position_y       == <<"p","o","s","i","t","i","o","n","_","y">>
K_sapshcut_path    == <<"s","a","p","s","h","c","u","t","_","p","a","t","h">>
K_default_sap_lang ==
  <<"d","e","f","a","u","l","t","_","s","a","p","_","l","a","n","g">>
K_QG1              == <<"Q","G","1">>
K_excel            == <<"e","x","c","e","l">>
K_w                == <<"w">>

CURRENT_VERSION == <<"v.1.1.0">>
V_app_name      == <<"SAP Opener">>
V_excel         == <<"C:\\Program Files (x86)\\Microsoft Office\\root\\Office16\\EXCEL.EXE">>
V_wiki          == <<"https://pl.wikipedia.org/wiki/">>
V_EN            == <<"E","N">>
V_200           == <<"2","0","0">>
V_0             == <<"0">>

\* the "not found" value of find_sapshcut_exe: the str "None"
NotFound == <<"N","o","n","e">>

\* search_dirs, in the order searched
SearchDirs == {1, 2}
ExeIn(d) ==
  IF d = 1 THEN <<"C:\\Program Files\\SAP\\FrontEnd\\SAPgui\\sapshcut.exe">>
  ELSE <<"C:\\Program Files (x86)\\SAP\\FrontEnd\\SAPgui\\sapshcut.exe">>

----------------------------------------------------------------------------
(* configparser.ConfigParser *)

NoOptions == [k \in {} |-> <<>>]

\* ConfigParser(): no section, no default
EmptyConfig == [s \in {"DEFAULT"} |-> NoOptions]

\* section in config
InConfig(cfg, s) == s = "DEFAULT" \/ s \in DOMAIN cfg

\* has_option(section, option): the section's options and the defaults
HasOption(cfg, s, opt) ==
  IF s = "DEFAULT" THEN Lower(opt) \in DOMAIN cfg["DEFAULT"]
  ELSE IF s \notin DOMAIN cfg THEN FALSE
  ELSE Lower(opt) \in DOMAIN cfg[s] \/ Lower(opt) \in DOMAIN cfg["DEFAULT"]

\* get(section, option) of an option has_option finds
GetOption(cfg, s, opt) ==
  IF Lower(opt) \in DOMAIN cfg[s] THEN cfg[s][Lower(opt)]
  ELSE cfg["DEFAULT"][Lower(opt)]

\* config[section].get(option, fallback)
ProxyGet(cfg, s, opt, fallback) ==
  IF HasOption(cfg, s, opt) THEN GetOption(cfg, s, opt) ELSE fallback

\* config[section][key] = value
SetOption(cfg, s, key, value) ==
  [cfg EXCEPT ![s] = (Lower(key) :> value) @@ cfg[s]]

\* the options of one section of a file: names go through optionxform
LowerOptions(opts) ==
  [k \in {Lower(j) : j \in DOMAIN opts} |->
     opts[CHOOSE j \in DOMAIN opts : Lower(j) = k]]

\* a dict of options, in its order, as the options read_dict stores: names go
\* through optionxform, a later pair replaces an earlier one of the same name
DictOptions(pairs) ==
  [k \in {Lower(pairs[i][1]) : i \in DOMAIN pairs} |->
     pairs[CHOOSE i \in DOMAIN pairs :
             /\ Lower(pairs[i][1]) = k
             /\ \A j \in DOMAIN pairs : Lower(pairs[j][1]) = k => j <= i][2]]

\* config[section] = options: the section is emptied, then read
SetSection(cfg, s, pairs) ==
  (s :> DictOptions(pairs)) @@ cfg

\* read of a parsed file into cfg: each option of the file is set
ReadSections(cfg, content) ==
  [s \in DOMAIN cfg \cup DOMAIN content |->
     IF s \in DOMAIN content
     THEN LowerOptions(content[s]) @@ (IF s \in DOMAIN cfg THEN cfg[s] ELSE NoOptions)
     ELSE cfg[s]]

Missing == [kind |-> "missing", content |-> EmptyConfig]
Corrupt == [kind |-> "corrupt", content |-> EmptyConfig]

\* save(): the file holds what the parser holds
Save(cfg) == [kind |-> "ini", content |-> cfg]

\* config.read(config_file): a missing file is skipped
LoadConfig(cfg, f) ==
  IF f.kind = "ini" THEN ReadSections(cfg, f.content) ELSE cfg

\* config.read raises on a file that is no INI text
LoadRaises(f) == f.kind = "corrupt"

----------------------------------------------------------------------------
(* ConfigManager *)

\* find_sapshcut_exe
FindSapshcutExe(cfg, dirs) ==
  IF HasOption(cfg, "DEFAULT", K_sapshcut_path)
  THEN GetOption(cfg, "DEFAULT", K_sapshcut_path)
  ELSE IF 1 \in dirs THEN ExeIn(1)
  ELSE IF 2 \in dirs THEN ExeIn(2)
  ELSE NotFound

\* _default_config: the sections and their options, in the dict's order
DefaultConfig(cfg, dirs) ==
  << <<"DEFAULT",
       << <<K_app_name, V_app_name>>,
          <<K_version, CURRENT_VERSION>>,
          <<K_position_x, V_0>>,
          <<K_position_y, V_0>>,
          <<K_sapshcut_path, FindSapshcutExe(cfg, dirs)>>,
          <<K_default_sap_lang, V_EN>> >> >>,
     <<"DEFAULT_SAP_CLIENT", << <<K_QG1, V_200>> >> >>,
     <<"APP", << <<K_excel, V_excel>> >> >>,
     <<"WEB", << <<K_w, V_wiki>> >> >> >>

RECURSIVE SetSections(_, _)
SetSections(cfg, defaults) ==
  IF defaults = <<>> THEN cfg
  ELSE SetSections(SetSection(cfg, Head(defaults)[1], Head(defaults)[2]),
                   Tail(defaults))

\* _create_default_config, before its save()
CreateDefaultConfig(cfg, dirs) == SetSections(cfg, DefaultConfig(cfg, dirs))

\* a merge that sets every default, present or not
MergeOption_Mutant(cfg, s, key, value) == SetOption(cfg, s, key, value)

\* the body of _merge_default_config's inner loop for one option
MergeOption(cfg, s, key, value) ==
  IF key = K_version THEN SetOption(cfg, s, key, value)
  ELSE IF ~HasOption(cfg, s, key) THEN SetOption(cfg, s, key, value)
  ELSE cfg

RECURSIVE MergeOptions(_, _, _)
MergeOptions(cfg, s, pairs) ==
  IF pairs = <<>> THEN cfg
  ELSE MergeOptions(MergeOption(cfg, s, Head(pairs)[1], Head(pairs)[2]),
                    s, Tail(pairs))

RECURSIVE MergeSections(_, _)
MergeSections(cfg, defaults) ==
  IF defaults = <<>> THEN cfg
  ELSE LET s     == Head(defaults)[1]
           pairs == Head(defaults)[2]
       IN MergeSections(IF ~InConfig(cfg, s) THEN SetSection(cfg, s, pairs)
                        ELSE MergeOptions(cfg, s, pairs),
                        Tail(defaults))

\* _merge_default_config, before its save()
MergeDefaultConfig(cfg, dirs) == MergeSections(cfg, DefaultConfig(cfg, dirs))

\* ConfigManager.__init__ up to the first _load_config: the parser and the file
CreatedConfig(f, dirs) ==
  IF f.kind = "missing" THEN CreateDefaultConfig(EmptyConfig, dirs) ELSE EmptyConfig
CreatedFile(f, dirs) ==
  IF f.kind = "missing" THEN Save(CreatedConfig(f, dirs)) ELSE f

\* ConfigManager.__init__ after _load_config, _merge_default_config, _load_config
InitConfig(f, dirs) ==
  LET c1 == CreatedConfig(f, dirs)
      f1 == CreatedFile(f, dirs)
      c2 == LoadConfig(c1, f1)
      c3 == MergeDefaultConfig(c2, dirs)
  IN LoadConfig(c3, Save(c3))

\* x or y of Python
PyOr(x, y) == IF Truthy(x) THEN x ELSE y

InitSappath(cfg, dirs) ==
  PyOr(ProxyGet(cfg, "DEFAULT", K_sapshcut_path, PyNone), FindSapshcutExe(cfg, dirs))

InitDefaultLang(cfg) == ProxyGet(cfg, "DEFAULT", K_default_sap_lang, V_EN)

\* get_def_client
GetDefClient(cfg, system) == ProxyGet(cfg, "DEFAULT_SAP_CLIENT", system, PyNone)

\* get_path
GetPath(cfg, shortcut) ==
  IF HasOption(cfg, "APP", shortcut)
  THEN [found |-> TRUE, link |-> GetOption(cfg, "APP", shortcut), kind |-> "APP"]
  ELSE IF HasOption(cfg, "WEB", shortcut)
  THEN [found |-> TRUE, link |-> GetOption(cfg, "WEB", shortcut), kind |-> "WEB"]
  ELSE [found |-> FALSE, link |-> PyNone, kind |-> "NONE"]

\* a key_x that leaves the resolution out
KeyX_Mutant(scr) == K_position_x

\* key_x and key_y of on_motion and load_window_position
KeyX(scr) == K_position_x \o <<"_">> \o IntToStr(scr[1]) \o <<"x">> \o IntToStr(scr[2])
KeyY(scr) == K_position_y \o <<"_">> \o IntToStr(scr[1]) \o <<"x">> \o IntToStr(scr[2])

\* write_position, before its save()
WritePosition(cfg, x, y, key_x, key_y) ==
  SetOption(SetOption(cfg, "DEFAULT", key_x, IntToStr(x)), "DEFAULT", key_y, IntToStr(y))

\* config['DEFAULT'].getint(key, fallback)
GetInt(cfg, key, fallback) ==
  IF HasOption(cfg, "DEFAULT", key)
  THEN StrToInt(GetOption(cfg, "DEFAULT", key))
  ELSE fallback

\* the 200 of get_position
ClampOffset == 200

\* one coordinate of get_position
ClampCoord(v, extent) == IF v > extent THEN extent - ClampOffset ELSE v

\* get_position; scr is what get_screen_size returns
GetPosition(cfg, key_x, key_y, scr) ==
  << ClampCoord(GetInt(cfg, key_x, 0), scr[1]),
     ClampCoord(GetInt(cfg, key_y, 0), scr[2]) >>

----------------------------------------------------------------------------
(* InputProcessor *)

\* f"-client={client}" and the like
Flag(name, value) == <<name>> \o value

\* a flag left out for None only, not for the empty string
AppendIf_Mutant(command, name, value) ==
  IF value # PyNone THEN Append(command, Flag(name, value)) ELSE command

AppendIf(command, name, value) ==
  IF Truthy(value) THEN Append(command, Flag(name, value)) ELSE command

\* the command run_sap_gui builds
SapCommand(path, client, language, system, transaction) ==
  AppendIf(AppendIf(AppendIf(AppendIf(<<path>>,
    "-client=", client), "-language=", language), "-system=", system),
    "-transaction=", transaction)

\* the arguments each handler of process_unconfigured gives run_sap_gui:
\* <<client, language, system, transaction>>
RunDefaulted(cfg, lang, input) ==
  <<GetDefClient(cfg, input), lang, input, PyNone>>

\* a language of three characters
RunWithLanguage_Mutant(cfg, lang, input) ==
  LET language == Slice(input, 0, 3)
      system   == Slice(input, 3, Len(input))
  IN <<GetDefClient(cfg, system), language, system, PyNone>>

RunWithLanguage(cfg, lang, input) ==
  LET language == Slice(input, 0, 2)
      system   == Slice(input, 2, Len(input))
  IN <<GetDefClient(cfg, system), language, system, PyNone>>

RunWithSystemClient(cfg, lang, input) ==
  LET system == Slice(input, 0, 3)
      client == Slice(input, 3, Len(input))
  IN <<client, lang, system, PyNone>>

RunWithLanguageClient(cfg, lang, input) ==
  LET language == Slice(input, 0, 2)
      system   == Slice(input, 2, 5)
      client   == Slice(input, 5, Len(input))
  IN <<client, language, system, PyNone>>

\* the lengths process_unconfigured has a handler for
HandledLengths == {3, 5, 6, 8}

SapArguments(cfg, lang, input) ==
  CASE Len(input) = 3 -> RunDefaulted(cfg, lang, input)
    [] Len(input) = 5 -> RunWithLanguage(cfg, lang, input)
    [] Len(input) = 6 -> RunWithSystemClient(cfg, lang, input)
    [] Len(input) = 8 -> RunWithLanguageClient(cfg, lang, input)
    [] OTHER -> <<>>

\* what a spawn can do: start the process (ok), start it and see it exit
\* non-zero (nonzero), find no such file (notfound: FileNotFoundError), or fail
\* in another way (oserror: PermissionError and the other OSErrors)
SpawnOutcomes == {"ok", "nonzero", "notfound", "oserror"}

NoLast ==
  [text |-> <<>>, input |-> <<>>, mode |-> "NONE", link |-> PyNone,
   params |-> <<>>, argv |-> <<>>, spawn |-> "none", escaped |-> FALSE]

\* run_sap_gui
RunSapGui(base, path, params, out) ==
  IF <<path>> = <<NotFound>>
  THEN [base EXCEPT !.mode = "SAP", !.params = params]
  ELSE [base EXCEPT !.mode = "SAP", !.params = params,
          !.argv = SapCommand(path, params[1], params[2], params[3], params[4]),
          !.spawn = out,
          \* only CalledProcessError is caught
          !.escaped = out \in {"notfound", "oserror"}]

\* process_unconfigured
ProcessUnconfigured(base, cfg, path, lang, out) ==
  IF Len(base.input) \in HandledLengths
  THEN RunSapGui(base, path, SapArguments(cfg, lang, base.input), out)
  ELSE base

START == <<"s","t","a","r","t">>

\* open_webpage: every exception is caught
OpenWebpage(base, url, out) ==
  [base EXCEPT !.mode = "WEB", !.argv = <<START, url>>, !.spawn = out]

\* process_configured
ProcessConfigured(base, details, out) ==
  IF details.kind = "APP"
  THEN [base EXCEPT !.mode = "APP", !.link = details.link,
          !.argv = <<details.link>>, !.spawn = out,
          \* only FileNotFoundError is caught
          !.escaped = out = "oserror"]
  ELSE IF details.kind = "WEB"
  THEN OpenWebpage([base EXCEPT !.link = details.link], details.link, out)
  ELSE base

\* InputProcessor.__init__
InputProcessor(cfg, path, lang, text, out) ==
  LET input_string == Lower(text)
      base == [NoLast EXCEPT !.text = text, !.input = input_string]
      shortcut_details == GetPath(cfg, input_string)
  IN IF shortcut_details.found
     THEN ProcessConfigured(base, shortcut_details, out)
     ELSE ProcessUnconfigured(base, cfg, path, lang, out)

----------------------------------------------------------------------------
(* The settings files a start can find, the texts typed, the screens *)

K_PROD  == <<"P","R","O","D">>
K_ENQ   == <<"E","N","Q">>
K_Deq   == <<"D","e","q">>
K_enqg1 == <<"e","n","q","g","1">>
K_calc  == <<"c","a","l","c">>
K_QG1200EN == <<"Q","G","1","2","0","0","E","N">>

\* a file its user has edited: an own launcher path and language, client
\* defaults, shortcuts of the lengths 3, 5 and 8, a web shortcut "version"
UserFile ==
  Save([s \in {"DEFAULT", "DEFAULT_SAP_CLIENT", "APP", "WEB"} |->
    CASE s = "DEFAULT" ->
           (K_app_name :> V_app_name) @@ (K_version :> <<"v.1.0.0">>)
           @@ (K_position_x :> V_0) @@ (K_position_y :> V_0)
           @@ (K_sapshcut_path :> <<"D:\\Tools\\sapshcut.exe">>)
           @@ (K_default_sap_lang :> <<"D","E">>)
      [] s = "DEFAULT_SAP_CLIENT" ->
           (K_QG1 :> V_200) @@ (K_ENQ :> <<>>) @@ (K_PROD :> <<"1","0","0">>)
      [] s = "APP" ->
           (K_excel :> V_excel) @@ (K_Deq :> <<"notepad.exe">>)
           @@ (K_QG1200EN :> <<"calc.exe">>)
      [] OTHER ->
           (K_w :> V_wiki) @@ (K_enqg1 :> <<"https://example.org/enqg1">>)
           @@ (K_version :> <<"https://example.org/releases">>)])

\* a file of an earlier version: no launcher path, no client defaults, no
\* web shortcuts, an empty default language
OldFile ==
  Save([s \in {"DEFAULT", "APP"} |->
    IF s = "DEFAULT"
    THEN (K_app_name :> <<"Old name">>) @@ (K_version :> <<"v.1.0.0">>)
         @@ (K_default_sap_lang :> <<>>)
    ELSE (K_calc :> <<"calc.exe">>)])

Files == {Missing, Corrupt, UserFile, OldFile}

BaseTexts ==
  { <<"e","n","q","g","1","2","0","0","7","z","k">>,
    <<"Q","G","1","2","0","0","E","N","x","y","k">>,
    <<"D","e","Q","g","1","3","0","0","a","b","k">> }

NamedTexts ==
  { K_w, <<" ","W"," ">>, K_excel, K_calc, K_PROD, K_version, K_app_name,
    K_position_x, <<"V","e","r","s","i","o","n">> }

\* the texts submitted: every prefix of a base text up to MaxLen, and the named
Texts == {Slice(b, 0, n) : b \in BaseTexts, n \in 0..MaxLen} \cup NamedTexts

Screens == {<<300, 250>>, <<250, 300>>}

\* window coordinates: left of the screen, inside, at an extent, beyond it
Coords == {-1, 10, 300, 301}

NoPos == <<>>

UpdateMessage == <<"Update possible to v.9.9.9">>

----------------------------------------------------------------------------
(* The program *)

Init ==
  /\ file \in Files
  /\ exeDirs \in SUBSET SearchDirs
  /\ screen = <<300, 250>>
  /\ pc = "off"
  /\ config = EmptyConfig
  /\ sappath = PyNone
  /\ default_lang = PyNone
  /\ move_var = FALSE
  /\ entry = <<>>
  /\ last = NoLast
  /\ loaded = NoPos
  /\ written = [r \in Screens |-> NoPos]
  /\ moves = 0

\* config_manager = ConfigManager(): the file is created when missing, loaded
\* (a corrupt file makes read raise, and the program ends), merged with the
\* defaults, saved and loaded again
Start ==
  /\ pc = "off"
  /\ IF LoadRaises(CreatedFile(file, exeDirs))
     THEN /\ pc' = "config_error"
          /\ UNCHANGED <<file, config, sappath, default_lang>>
     ELSE LET cfg == InitConfig(file, exeDirs)
          IN /\ config' = cfg
             /\ file' = Save(cfg)
             /\ sappath' = InitSappath(cfg, exeDirs)
             /\ default_lang' = InitDefaultLang(cfg)
             /\ pc' = "configured"
  /\ UNCHANGED <<exeDirs, screen, move_var, entry, last, loaded, written, moves>>

\* app = Window(root, config_manager): load_window_position, then check_update,
\* which raises when the release feed cannot be read
WindowInit(update) ==
  /\ pc = "configured"
  /\ loaded' = GetPosition(config, KeyX(screen), KeyY(screen), screen)
  /\ move_var' = FALSE
  /\ pc' = IF update = "raises" THEN "update_error" ELSE "running"
  /\ entry' = IF update = "available" THEN UpdateMessage ELSE <<>>
  /\ UNCHANGED <<file, exeDirs, screen, config, sappath, default_lang, last,
                 written, moves>>

\* on_enter_pressed with `text` in the entry: an exception that leaves
\* InputProcessor skips entry.delete
OnEnterPressed(text, out) ==
  /\ pc = "running"
  /\ LET res == InputProcessor(config, sappath, default_lang, Strip(text), out)
     IN /\ last' = res
        /\ entry' = IF res.escaped THEN text ELSE <<>>
  /\ UNCHANGED <<file, exeDirs, screen, pc, config, sappath, default_lang,
                 move_var, loaded, written, moves>>

\* the Move entry of the context menu
ToggleMove ==
  /\ pc = "running"
  /\ move_var' = ~move_var
  /\ UNCHANGED <<file, exeDirs, screen, pc, config, sappath, default_lang,
                 entry, last, loaded, written, moves>>

\* on_motion with Move selected and the window at (x, y)
OnMotion(x, y) ==
  /\ pc = "running"
  /\ move_var
  /\ moves < MaxMoves
  /\ LET cfg == WritePosition(config, x, y, KeyX(screen), KeyY(screen))
     IN /\ config' = cfg
        /\ file' = Save(cfg)
  /\ written' = [written EXCEPT ![screen] = <<x, y>>]
  /\ moves' = moves + 1
  /\ UNCHANGED <<exeDirs, screen, pc, sappath, default_lang, move_var, entry,
                 last, loaded>>

\* the Exit entry of the context menu: the process and its objects are gone
Exit ==
  /\ pc = "running"
  /\ pc' = "off"
  /\ config' = EmptyConfig
  /\ sappath' = PyNone
  /\ default_lang' = PyNone
  /\ move_var' = FALSE
  /\ entry' = <<>>
  /\ last' = NoLast
  /\ loaded' = NoPos
  /\ UNCHANGED <<file, exeDirs, screen, written, moves>>

\* SAP GUI is installed into, or removed from, a searched directory while the
\* program is off (the program searches at its start only)
InstallExe(d) ==
  /\ pc = "off"
  /\ d \notin exeDirs
  /\ exeDirs' = exeDirs \cup {d}
  /\ UNCHANGED <<file, screen, pc, config, sappath, default_lang, move_var,
                 entry, last, loaded, written, moves>>

UninstallExe(d) ==
  /\ pc = "off"
  /\ d \in exeDirs
  /\ exeDirs' = exeDirs \ {d}
  /\ UNCHANGED <<file, screen, pc, config, sappath, default_lang, move_var,
                 entry, last, loaded, written, moves>>

\* the screen resolution changes
SetScreen(scr) ==
  /\ scr # screen
  /\ screen' = scr
  /\ UNCHANGED <<file, exeDirs, pc, config, sappath, default_lang, move_var,
                 entry, last, loaded, written, moves>>

\* settings, shortcuts and launches
Next ==
  \/ Start
  \/ \E update \in {"none", "available", "raises"} : WindowInit(update)
  \/ \E text \in Texts, out \in SpawnOutcomes : OnEnterPressed(text, out)
  \/ Exit
  \/ \E d \in SearchDirs : InstallExe(d)
  \/ \E d \in SearchDirs : UninstallExe(d)

Spec == Init /\ [][Next]_vars

\* the window position: a first start without a settings file
InitPos ==
  /\ Init
  /\ file = Missing
  /\ exeDirs = {}

NextPos ==
  \/ Start
  \/ \E update \in {"none", "available", "raises"} : WindowInit(update)
  \/ ToggleMove
  \/ \E x \in Coords, y \in Coords : OnMotion(x, y)
  \/ \E scr \in Screens : SetScreen(scr)
  \/ Exit

SpecPos == InitPos /\ [][NextPos]_vars

----------------------------------------------------------------------------
(* Properties *)

\* option `key` is written in section s itself
InTable(cfg, s, key) == s \in DOMAIN cfg /\ key \in DOMAIN cfg[s]

\* the client default written for `system`, else None
TableClient(cfg, system) ==
  IF InTable(cfg, "DEFAULT_SAP_CLIENT", system)
  THEN cfg["DEFAULT_SAP_CLIENT"][system] ELSE PyNone

\* the default language written in the settings, else EN
TableLanguage(cfg) ==
  IF InTable(cfg, "DEFAULT", K_default_sap_lang)
  THEN cfg["DEFAULT"][K_default_sap_lang] ELSE <<"E","N">>

ExpectedParams(cfg, i) ==
  CASE Len(i) = 3 -> <<TableClient(cfg, i), TableLanguage(cfg), i, PyNone>>
    [] Len(i) = 5 -> <<TableClient(cfg, SubSeq(i, 3, 5)), SubSeq(i, 1, 2),
                       SubSeq(i, 3, 5), PyNone>>
    [] Len(i) = 6 -> <<SubSeq(i, 4, 6), TableLanguage(cfg), SubSeq(i, 1, 3), PyNone>>
    [] Len(i) = 8 -> <<SubSeq(i, 6, 8), SubSeq(i, 1, 2), SubSeq(i, 3, 5), PyNone>>
    [] OTHER -> <<>>

\* C1: an input that is not resolved as a shortcut and has length 3, 5, 6 or
\* 8 is, with a launcher path available, launched in SAP-GUI mode with
\* exactly the positional parameters of its length: 3 -> system = input,
\* client = the default of the system, language = the default language;
\* 5 -> language = input[0:2], system = input[2:5], client = the default of
\* the system; 6 -> system = input[0:3], client = input[3:6], the default
\* language; 8 -> language = input[0:2], system = input[2:5], client =
\* input[5:8]; the transaction is absent in all four.
C1_SapParameters ==
  (/\ pc = "running"
   /\ Len(last.input) \in {3, 5, 6, 8}
   /\ ~GetPath(config, last.input).found
   /\ sappath # NotFound)
  => /\ last.input = Lower(last.text)
     /\ last.mode = "SAP"
     /\ last.params = ExpectedParams(config, last.input)
     /\ last.params[4] = PyNone
     /\ last.argv # <<>>
     /\ last.spawn # "none"

\* C1's case: a text of length 5 in mixed case was launched with the language
\* of its first two characters and the client default of its last three
C1_Witness ==
  /\ pc = "running"
  /\ last.text = <<"D","e","Q","g","1">>
  /\ last.mode = "SAP"
  /\ last.params = << <<"2","0","0">>, <<"d","e">>, <<"q","g","1">>, PyNone >>
  /\ last.spawn = "ok"

\* C2: an input that is a key of the APP or of the WEB table is dispatched in
\* APPLICATION or WEBPAGE mode with the target stored for it in that table,
\* and never reaches the SAP launcher, whatever its length.
C2_ShortcutPrecedence ==
  (/\ pc = "running"
   /\ \/ InTable(config, "APP", last.input)
      \/ InTable(config, "WEB", last.input))
  => /\ last.mode \in {"APP", "WEB"}
     /\ last.mode = "APP" =>
          /\ InTable(config, "APP", last.input)
          /\ last.link = config["APP"][last.input]
     /\ last.mode = "WEB" =>
          /\ InTable(config, "WEB", last.input)
          /\ last.link = config["WEB"][last.input]

\* C3: an input whose length is none of 3, 5, 6, 8 and that is a key of
\* neither the APP nor the WEB table resolves to no shortcut and causes no
\* launch at all, a key of another settings section included.
C3_NoActionOtherwise ==
  (/\ pc = "running"
   /\ Len(last.input) \notin {3, 5, 6, 8}
   /\ ~InTable(config, "APP", last.input)
   /\ ~InTable(config, "WEB", last.input))
  => /\ ~GetPath(config, last.input).found
     /\ last.mode = "NONE"
     /\ last.argv = <<>>
     /\ last.spawn = "none"

\* C4: the start of the settings store never ends in a fatal error because
\* of the settings file, be it missing or corrupt.
C4_StartNeverFatal == pc # "config_error"

\* C5: a launch that cannot be spawned or exits non-zero, in any mode, lets
\* no error leave the input handler: the entry is cleared and the program
\* goes on.
C5_LaunchFailureNotFatal ==
  last.spawn \in {"nonzero", "notfound", "oserror"}
  => /\ ~last.escaped
     /\ entry = <<>>
     /\ pc = "running"

IsPresent(e) == e[2] # PyNone /\ e[2] # <<>>

ExpectedFlags(p) ==
  LET all == << <<"-client=", p[1]>>, <<"-language=", p[2]>>,
                <<"-system=", p[3]>>, <<"-transaction=", p[4]>> >>
      present == SelectSeq(all, IsPresent)
  IN [k \in 1..Len(present) |-> <<present[k][1]>> \o present[k][2]]

\* C6: in SAP-GUI mode nothing is spawned when the launcher path is the "not
\* found" value; otherwise the spawned list is the launcher path followed, in
\* the order client, language, system, transaction, by exactly the flags
\* whose value is neither absent nor empty.
C6_SapCommand ==
  (pc = "running" /\ last.mode = "SAP")
  => IF sappath = NotFound
     THEN last.argv = <<>> /\ last.spawn = "none"
     ELSE /\ last.argv = <<sappath>> \o ExpectedFlags(last.params)
          /\ last.spawn # "none"

\* C6's case: a launch whose client default is the empty string has the
\* language and system flags only
C6_Witness ==
  /\ pc = "running"
  /\ last.mode = "SAP"
  /\ last.params[1] = <<>>
  /\ last.argv = << sappath, <<"-language=", "D", "E">>,
                    <<"-system=", "e", "n", "q">> >>

DefaultKeys ==
  { <<"DEFAULT", K_app_name>>, <<"DEFAULT", K_version>>,
    <<"DEFAULT", K_position_x>>, <<"DEFAULT", K_position_y>>,
    <<"DEFAULT", K_sapshcut_path>>, <<"DEFAULT", K_default_sap_lang>>,
    <<"DEFAULT_SAP_CLIENT", <<"q","g","1">> >>,
    <<"APP", K_excel>>, <<"WEB", K_w>> }

\* C7: merging the defaults into an existing settings file adds every
\* missing default key, leaves the value of every key already there as it
\* was, sets only the version to the built-in one, and merging again changes
\* nothing.
C7_MergeIdempotent ==
  [][(pc = "off" /\ pc' = "configured" /\ file.kind = "ini")
     => LET c == LoadConfig(EmptyConfig, file)
            m == config'
        IN /\ \A d \in DefaultKeys : InTable(m, d[1], d[2])
           /\ \A s \in DOMAIN c : \A k \in DOMAIN c[s] :
                /\ InTable(m, s, k)
                /\ <<s, k>> # <<"DEFAULT", K_version>> => m[s][k] = c[s][k]
           /\ \A s \in DOMAIN m : \A k \in DOMAIN m[s] :
                InTable(c, s, k) \/ <<s, k>> \in DefaultKeys
           /\ m["DEFAULT"][K_version] = <<"v.1.1.0">>
           /\ file' = Save(m)
           /\ \A dirs \in SUBSET SearchDirs :
                /\ MergeDefaultConfig(m, dirs) = m
                /\ LoadConfig(MergeDefaultConfig(m, dirs), file') = m]_vars

\* C7's case: the file of an earlier version was merged: its own values are
\* kept, the missing sections and keys are there, the version is the new one
C7_Witness ==
  /\ pc = "configured"
  /\ config["DEFAULT"][K_app_name] = <<"Old name">>
  /\ config["DEFAULT"][K_default_sap_lang] = <<>>
  /\ config["DEFAULT"][K_version] = <<"v.1.1.0">>
  /\ InTable(config, "WEB", K_w)
  /\ InTable(config, "APP", K_calc)
  /\ InTable(config, "APP", K_excel)
  /\ file = Save(config)

ExpectedCoord(v, extent) == IF v > extent THEN extent - 200 ELSE v

\* C8: a position written under the keys of a screen resolution is read back
\* under the same keys as written, but for a coordinate above the screen
\* extent, which is read as the extent less 200; what is written under the
\* keys of another resolution does not change it.
C8_PositionRoundTrip ==
  pc \in {"configured", "running"}
  => \A r \in Screens :
       written[r] # NoPos
       => GetPosition(config, KeyX(r), KeyY(r), screen)
          = << ExpectedCoord(written[r][1], screen[1]),
               ExpectedCoord(written[r][2], screen[2]) >>

\* C8's case: positions were written under both resolutions, the program was
\* started again and loaded the one of its screen, its x beyond the width
C8_Witness ==
  /\ pc = "running"
  /\ screen = <<300, 250>>
  /\ written[<<300, 250>>] = <<301, 10>>
  /\ written[<<250, 300>>] = <<10, 300>>
  /\ moves = 2
  /\ ~move_var
  /\ loaded = <<100, 10>>

\* C9: for all persisted coordinates and every screen, the coordinates
\* get_position returns are on the screen: 0 <= x < width and 0 <= y < height.
C9_PositionOnScreen ==
  pc \in {"configured", "running"}
  => LET p == GetPosition(config, KeyX(screen), KeyY(screen), screen)
     IN /\ 0 <= p[1] /\ p[1] < screen[1]
        /\ 0 <= p[2] /\ p[2] < screen[2]

\* C10: at every start the launcher path is the path its user configured
\* when there is one, else the first executable found in the searched
\* directories, and the "not found" value only if there is none at that start.
C10_LauncherPathEveryStart ==
  [][(pc = "off" /\ pc' = "configured")
     => LET configured ==
              /\ file.kind = "ini"
              /\ InTable(file.content, "DEFAULT", K_sapshcut_path)
              /\ file.content["DEFAULT"][K_sapshcut_path] # NotFound
        IN sappath' = IF configured THEN file.content["DEFAULT"][K_sapshcut_path]
                      ELSE IF 1 \in exeDirs THEN ExeIn(1)
                      ELSE IF 2 \in exeDirs THEN ExeIn(2)
                      ELSE NotFound]_vars

====
